---- MODULE Spec2Model ----
(***************************************************************************)
(* Model of psychopy_tools.stim_gen: the two ITI generators random_jitter  *)
(* (geometric / exponential) and random_uniform_jitter (uniform).  One      *)
(* behaviour is one call: argument validation, the rejection-retry loop,   *)
(* one candidate sequence per iteration, and the return.                    *)
(*                                                                         *)
(* psychopy_tools.presentation: clean_up (SpecCleanUp) and wait_for_click   *)
(* (SpecWaitForClick) have their own variables and specifications; one     *)
(* behaviour of each is again one call.                                     *)
(*                                                                         *)
(* Numbers.  A Python number is a record [k, u]: k is its Python type       *)
(* ("int", "float", "inf" for numpy.inf, "none" for None) and u its value   *)
(* in fixed point, Unit steps per 1.0.  An element of a candidate sequence *)
(* is a record [u, e]: u as before and e a count of steps far below one     *)
(* fixed-point step, EpsParts of them making the 0.000000000001 that        *)
(* random_uniform_jitter adds to its upper bound.  Elements are ordered     *)
(* lexicographically.                                                       *)
(***************************************************************************)
EXTENDS Integers, Sequences, FiniteSets, TLC

\* ------------------------------------------------------------ bounds
\* Largest num_trials of a request.
MaxTrials == 2
\* Largest nsim of a request.
MaxNsim == 2
\* Grid steps per 0.000000000001 (the resolution below one fixed-point step).
EpsParts == 2

\* Largest number of files in the data_files list of a clean_up call.
MaxFiles == 2
\* Largest number of getPressed() calls of one wait_for_click call.
MaxPolls == 4
\* Number of tick intervals of a RatingScale (high - low).
MaxTick == 4
\* Largest reading of a RatingScale's clock, in the grid's time steps.
MaxClock == 4

\* Fixed-point steps per 1.0.
Unit == 10^5

\* ------------------------------------------------------------ numbers
None == [k |-> "none", u |-> 0]
Inf == [k |-> "inf", u |-> 0]
I(n) == [k |-> "int", u |-> n * Unit]
F(x) == [k |-> "float", u |-> x]

Abs(x) == IF x < 0 THEN 0 - x ELSE x

IsNone(a) == a.k = "none"

\* isinstance(a, int)
IsInt(a) == a.k = "int"

\* Python truth value of a number or None: None and zero are false.
Truthy(a) == a.k = "inf" \/ (a.k # "none" /\ a.u # 0)

\* Python arithmetic: int op int is int, anything else float.
ArithKind(a, b) == IF a.k = "int" /\ b.k = "int" THEN "int" ELSE "float"

\* (2 * m) - x
TwiceMinus(m, x) == [k |-> ArithKind(m, x), u |-> 2 * m.u - x.u]

\* .5 * (lo + hi)
HalfSum(lo, hi) == [k |-> "float", u |-> (lo.u + hi.u) \div 2]

\* a > b for two numbers (neither None).
Gt(a, b) ==
    IF a.k = "inf" THEN b.k # "inf"
    ELSE IF b.k = "inf" THEN FALSE
    ELSE a.u > b.u

\* int(x) of a fixed-point value, in whole numbers: truncation toward zero.
IntOf(u) == IF u >= 0 THEN u \div Unit ELSE 0 - ((0 - u) \div Unit)

\* ------------------------------------------------------------ sequences
Elem(u, e) == [u |-> u, e |-> e]

ElemLeq(a, b) == a.u < b.u \/ (a.u = b.u /\ a.e <= b.e)

ElemLt(a, b) == a.u < b.u \/ (a.u = b.u /\ a.e < b.e)

RECURSIVE SumU(_)
SumU(s) == IF s = <<>> THEN 0 ELSE Head(s).u + SumU(Tail(s))

RECURSIVE SumE(_)
SumE(s) == IF s = <<>> THEN 0 ELSE Head(s).e + SumE(Tail(s))

\* All sequences of length n over the set S.
SeqsOf(S, n) == [1..n -> S]

\* ------------------------------------------------------------ state
VARIABLES
    fn,            \* the generator called
    args,          \* desired_mean, iti_min, iti_max as the caller passed them
    num_trials,    \* argument
    desired_mean,  \* argument, reassigned by random_uniform_jitter's derivation
    iti_min,       \* argument, reassigned by random_uniform_jitter's derivation
    iti_max,       \* argument, reassigned by both functions
    discrete,      \* argument
    tolerance,     \* argument, in fixed-point steps
    nsim,          \* argument
    pc,            \* "call", "loop", "exit", "returned", "raised"
    i,             \* the loop counter
    converged,     \* the loop flag
    seq,           \* the candidate drawn last (<<>> before the first draw)
    draws,         \* how many candidates np.random has produced in this call
    err,           \* the exception raised ("none" while there is none)
    reported       \* the iteration count printed before returning (-1 before)

\* presentation.clean_up
VARIABLES
    cu_args,       \* serial, labjack (supplied or not) and data_files as passed
    cu_faulty,     \* the supplied resources whose close() raises
    cu_pc,         \* "idle", a stage of CU_Stages, "exited" or "raised"
    cu_todo,       \* the files the for loop has still to close
    cu_log         \* the resources closed so far, in order, then the quit

\* presentation.wait_for_click
VARIABLES
    wc_pc,         \* "idle", "outer", "inner", "returned"
    wc_buttons,    \* the mouse buttons that are down
    wc_notClicked, \* the loop flag
    wc_obs         \* what each getPressed() call returned, in order

\* rating.RatingScale
VARIABLES
    rs_cfg,        \* the constructor arguments (and the Python major version)
    rs,            \* the scale's response attributes, and the exception raised
    rs_clock,      \* the reading of self.clock
    rs_units,      \* self.win.units
    rs_last        \* the method called last

\* The variables of stim_gen's generators.
genVars == <<fn, args, num_trials, desired_mean, iti_min, iti_max, discrete,
             tolerance, nsim, pc, i, converged, seq, draws, err, reported>>

cuVars == <<cu_args, cu_faulty, cu_pc, cu_todo, cu_log>>

wcVars == <<wc_pc, wc_buttons, wc_notClicked, wc_obs>>

rsVars == <<rs_cfg, rs, rs_clock, rs_units, rs_last>>

\* The variables of presentation.py and rating.py, which no generator touches.
presentationVars == <<cuVars, wcVars, rsVars>>

vars == <<genVars, cuVars, wcVars, rsVars>>

\* The request: the arguments no statement assigns.
request == <<fn, args, num_trials, discrete, tolerance, nsim>>

\* ------------------------------------------------------------ acceptance
\* numpy's default rtol of np.allclose is 1e-05: one part in RTolInv.
RTolInv == 10^5

\* np.allclose(seq.mean(), b, atol=tol): |mean - b| <= tol + rtol * |b|, with
\* mean = sum / n, multiplied through by n.  slack is the right-hand side in
\* whole fixed-point steps and exact says that it has no fractional part; a
\* sum with a positive sub-step part lies strictly above its u part.
AllClose(s, b, tol) ==
    LET n == Len(s)
        d == SumU(s) - n * b.u
        slack == n * tol + (n * Abs(b.u)) \div RTolInv
        exact == (n * Abs(b.u)) % RTolInv = 0
    IN  IF n = 0 THEN FALSE
        ELSE IF SumE(s) = 0 THEN Abs(d) <= slack
        ELSE IF d >= 0 THEN d < slack \/ (d = slack /\ ~exact)
        ELSE 0 - d <= slack

\* seq.max() <= hi, for a number hi (not None).
MaxLeq(s, hi) ==
    \/ hi.k = "inf"
    \/ \A j \in 1..Len(s) : ElemLeq(s[j], Elem(hi.u, 0))

\* RJ_Test without the ceiling test.
RJ_Test_NoCeiling(s, m, tol, hi) ==
    IF AllClose(s, m, tol) THEN {"accept"} ELSE {"reject"}

\* The outcomes of random_jitter's test
\*   np.allclose(seq_mean, desired_mean, atol=tolerance) and seq.max() <= iti_max
\* "and" evaluates its right side only when the left is true.  With iti_max
\* None the comparison raises TypeError on Python 3 and is False on Python 2
\* (None orders below every number); setup.py declares both.
RJ_Test(s, m, tol, hi) ==
    IF ~AllClose(s, m, tol) THEN {"reject"}
    ELSE IF IsNone(hi) THEN {"TypeError", "reject"}
    ELSE IF MaxLeq(s, hi) THEN {"accept"}
    ELSE {"reject"}

\* The outcomes of random_uniform_jitter's test.
RUJ_Test(s, m, tol) == IF AllClose(s, m, tol) THEN {"accept"} ELSE {"reject"}

\* elif i == nsim: break
Exhausted(c, n) == c = n

\* NextI without the increment: the counter never reaches nsim.
NextI_NoIncrement(c) == c

\* else: i += 1
NextI(c) == c + 1

\* ------------------------------------------------------------ the draws
\* np.random.geometric(p): whole numbers from 1 up.  The values enumerated:
\* 1, the whole part w of the mean 1/p, and 2w - 1 (with 1 it averages w).
GeometricDraws(mean) ==
    LET w == IntOf(mean.u)
    IN  { Elem(x * Unit, 0) : x \in {1, w, 2 * w - 1} }

\* np.random.exponential(scale): reals from 0 up.  The values enumerated: 0.2,
\* the mean, and the mean plus 0.05003.
ExponentialDraws(mean) ==
    { Elem(x, 0) : x \in {Unit \div 5, mean.u, mean.u + Unit \div 20 + 3} }

\* np.random.randint(low, high): the whole numbers lo..hi-1, lo = int(low) and
\* hi = int(high).  The values enumerated: both ends and every fourth value.
RandintDraws(low, high) ==
    LET lo == IntOf(low.u)
        hi == IntOf(high.u)
    IN  { Elem(x * Unit, 0) :
            x \in { y \in lo..(hi - 1) : y = lo \/ y = hi - 1 \/ (y - lo) % 4 = 0 } }

\* np.random.uniform(low, high): the reals of the half-open [low, high).  high
\* is an element, so that it can lie a sub-step above a fixed-point value.  The
\* values enumerated: low, the midpoint, the midpoint plus 0.05003, and the
\* last grid value below high.
UniformDraws(low, high) ==
    LET lo == Elem(low.u, 0)
        mid == (low.u + high.u) \div 2
        cand == { Elem(x, 0) : x \in {low.u, mid, mid + Unit \div 20 + 3} }
                \cup { Elem(high.u, high.e - 1) }
    IN  { x \in cand : ElemLeq(lo, x) /\ ElemLt(x, high) }

\* seq += iti_min - 1
Shift(s, lo) == [j \in DOMAIN s |-> Elem(s[j].u + lo.u - Unit, s[j].e)]

\* adjusted_mean = desired_mean - (iti_min - 1)
AdjustedMean(m, lo) == [k |-> ArithKind(m, lo), u |-> m.u - (lo.u - Unit)]

\* RJ_Candidates drawing from the exponential in discrete mode too.
RJ_Candidates_AlwaysExponential(n, m, lo, d) ==
    { Shift(s, lo) : s \in SeqsOf(ExponentialDraws(AdjustedMean(m, lo)), n) }

\* The candidates one pass of random_jitter's loop can draw, shifted.
RJ_Candidates(n, m, lo, d) ==
    LET adj == AdjustedMean(m, lo)
        raw == IF d THEN GeometricDraws(adj) ELSE ExponentialDraws(adj)
    IN  { Shift(s, lo) : s \in SeqsOf(raw, n) }

\* iti_max + .000000000001, as an element.
PlusEpsilon(hi) == Elem(hi.u, EpsParts)

\* The candidates one pass of random_uniform_jitter's loop can draw.
RUJ_Candidates(n, lo, hi, d) ==
    IF d THEN SeqsOf(RandintDraws(lo, [k |-> hi.k, u |-> hi.u + Unit]), n)
    ELSE SeqsOf(UniformDraws(lo, PlusEpsilon(hi)), n)

\* ------------------------------------------------------------ validation
\* RJ_Precondition with "desired_mean >= iti_min" for the strict comparison.
RJ_Precondition_NotStrict(nt, m, lo, hi, d) ==
    IF ~IsInt(nt) THEN "AssertionError"
    ELSE IF Gt(lo, m) THEN "AssertionError"
    ELSE IF d /\ ~IsInt(lo) THEN "AssertionError"
    ELSE IF d /\ ~IsNone(hi) /\ ~IsInt(hi) THEN "AssertionError"
    ELSE "none"

\* random_jitter's assertions, in order: the name of the exception raised, or
\* "none" when all pass.
RJ_Precondition(nt, m, lo, hi, d) ==
    IF ~IsInt(nt) THEN "AssertionError"
    ELSE IF ~Gt(m, lo) THEN "AssertionError"
    ELSE IF d /\ ~IsInt(lo) THEN "AssertionError"
    ELSE IF d /\ ~IsNone(hi) /\ ~IsInt(hi) THEN "AssertionError"
    ELSE "none"

\* The else branch that sets iti_max = np.inf belongs to the "if iti_max is not
\* None" nested under "if discrete": without discrete, iti_max stays as passed.
RJ_DefaultMax(hi, d) == IF d /\ IsNone(hi) THEN Inf ELSE hi

\* random_uniform_jitter's derivation of the third parameter.  The branches
\* test the truth value of the arguments, so that a zero counts as absent.
RUJ_Derive(m, lo, hi) ==
    IF Truthy(m) /\ Truthy(lo) THEN
        IF ~IsNone(hi) THEN [err |-> "AssertionError", m |-> m, lo |-> lo, hi |-> hi]
        ELSE [err |-> "none", m |-> m, lo |-> lo, hi |-> TwiceMinus(m, lo)]
    ELSE IF Truthy(m) /\ Truthy(hi) THEN
        IF ~IsNone(lo) THEN [err |-> "AssertionError", m |-> m, lo |-> lo, hi |-> hi]
        ELSE [err |-> "none", m |-> m, lo |-> TwiceMinus(m, hi), hi |-> hi]
    ELSE IF Truthy(lo) /\ Truthy(hi) THEN
        IF ~IsNone(m) THEN [err |-> "AssertionError", m |-> m, lo |-> lo, hi |-> hi]
        ELSE [err |-> "none", m |-> HalfSum(lo, hi), lo |-> lo, hi |-> hi]
    ELSE [err |-> "none", m |-> m, lo |-> lo, hi |-> hi]

\* assert desired_mean > iti_min: the exceptions it can end in ("none": it
\* passes).  With a None operand the comparison raises TypeError on Python 3;
\* on Python 2 None orders below every number and is not above itself.
RUJ_AssertMeanAboveMin(m, lo) ==
    IF IsNone(m) THEN {"TypeError", "AssertionError"}
    ELSE IF IsNone(lo) THEN {"TypeError", "none"}
    ELSE IF Gt(m, lo) THEN {"none"}
    ELSE {"AssertionError"}

\* The integer check of discrete mode: on iti_min when it is true, else on
\* iti_max when that is true, else none.
RUJ_DiscreteCheck(lo, hi, d) ==
    IF ~d THEN "none"
    ELSE IF Truthy(lo) THEN (IF IsInt(lo) THEN "none" ELSE "AssertionError")
    ELSE IF Truthy(hi) THEN (IF IsInt(hi) THEN "none" ELSE "AssertionError")
    ELSE "none"

\* ------------------------------------------------------------ steps
Raise(e) ==
    /\ pc' = "raised"
    /\ err' = e

\* random_jitter, from the call to the top of the loop.
RJ_Validate ==
    /\ pc = "call"
    /\ fn = "random_jitter"
    /\ LET e == RJ_Precondition(num_trials, desired_mean, iti_min, iti_max, discrete)
       IN  IF e # "none"
           THEN /\ Raise(e)
                /\ UNCHANGED <<iti_max, i, converged>>
           ELSE /\ iti_max' = RJ_DefaultMax(iti_max, discrete)
                /\ i' = 0
                /\ converged' = FALSE
                /\ pc' = "loop"
                /\ UNCHANGED err
    /\ UNCHANGED <<request, desired_mean, iti_min, seq, draws, reported>>
    /\ UNCHANGED presentationVars

\* The count of candidates drawn, after one more draw.  No call draws more
\* than nsim + 1; the count stops two above the largest nsim.
Drawn(c) == IF c > MaxNsim + 1 THEN c ELSE c + 1

\* A mutation of LoopControl: an accepted candidate sets converged but the
\* loop is not left.
LoopControl_NoBreak(outcome) ==
    IF outcome = "accept"
    THEN /\ converged' = TRUE
         /\ pc' = "loop"
         /\ UNCHANGED <<i, err>>
    ELSE IF outcome = "reject"
    THEN /\ IF Exhausted(i, nsim)
            THEN pc' = "exit" /\ i' = i
            ELSE pc' = "loop" /\ i' = NextI(i)
         /\ UNCHANGED <<converged, err>>
    ELSE /\ Raise(outcome)
         /\ UNCHANGED <<i, converged>>

\* The end of one pass of either loop, given the outcome of its test.
LoopControl(outcome) ==
    IF outcome = "accept"
    THEN /\ converged' = TRUE
         /\ pc' = "exit"
         /\ UNCHANGED <<i, err>>
    ELSE IF outcome = "reject"
    THEN /\ IF Exhausted(i, nsim)
            THEN pc' = "exit" /\ i' = i
            ELSE pc' = "loop" /\ i' = NextI(i)
         /\ UNCHANGED <<converged, err>>
    ELSE /\ Raise(outcome)
         /\ UNCHANGED <<i, converged>>

\* random_jitter, one pass of the loop: draw, shift, test.
RJ_Iterate ==
    /\ pc = "loop"
    /\ fn = "random_jitter"
    /\ \E s \in RJ_Candidates(IntOf(num_trials.u), desired_mean, iti_min, discrete) :
         /\ seq' = s
         /\ draws' = Drawn(draws)
         /\ \E o \in RJ_Test(s, desired_mean, tolerance, iti_max) : LoopControl(o)
    /\ UNCHANGED <<request, desired_mean, iti_min, iti_max, reported>>
    /\ UNCHANGED presentationVars

\* Either function, after the loop: print the iteration count, return seq.
Reported(c, n, conv) == IF conv THEN c ELSE n

RJ_Return ==
    /\ pc = "exit"
    /\ fn = "random_jitter"
    /\ reported' = Reported(i, nsim, converged)
    /\ pc' = "returned"
    /\ UNCHANGED <<request, desired_mean, iti_min, iti_max, i, converged, seq,
                   draws, err>>
    /\ UNCHANGED presentationVars

\* random_uniform_jitter, from the call to the top of the loop.
RUJ_Validate ==
    /\ pc = "call"
    /\ fn = "random_uniform_jitter"
    /\ LET r == RUJ_Derive(desired_mean, iti_min, iti_max)
       IN  IF ~IsInt(num_trials)
           THEN /\ Raise("AssertionError")
                /\ UNCHANGED <<desired_mean, iti_min, iti_max, i, converged>>
           ELSE IF r.err # "none"
           THEN /\ Raise(r.err)
                /\ UNCHANGED <<desired_mean, iti_min, iti_max, i, converged>>
           ELSE /\ desired_mean' = r.m
                /\ iti_min' = r.lo
                /\ iti_max' = r.hi
                /\ \E e \in RUJ_AssertMeanAboveMin(r.m, r.lo) :
                     LET f == IF e # "none" THEN e
                              ELSE RUJ_DiscreteCheck(r.lo, r.hi, discrete)
                     IN  IF f # "none"
                         THEN /\ Raise(f)
                              /\ UNCHANGED <<i, converged>>
                         ELSE /\ i' = 0
                              /\ converged' = FALSE
                              /\ pc' = "loop"
                              /\ UNCHANGED err
    /\ UNCHANGED <<request, seq, draws, reported>>
    /\ UNCHANGED presentationVars

\* The exception the arguments of the sampling call raise before anything is
\* drawn: iti_max + 1 (or + epsilon) with iti_max None, a None bound, or
\* randint's "low >= high".
RUJ_DrawError(lo, hi, d) ==
    IF IsNone(hi) \/ IsNone(lo) THEN "TypeError"
    ELSE IF d /\ IntOf(lo.u) >= IntOf(hi.u + Unit) THEN "ValueError"
    ELSE "none"

\* random_uniform_jitter, one pass of the loop: draw, test.
RUJ_Iterate ==
    /\ pc = "loop"
    /\ fn = "random_uniform_jitter"
    /\ LET e == RUJ_DrawError(iti_min, iti_max, discrete)
       IN  IF e # "none"
           THEN /\ Raise(e)
                /\ UNCHANGED <<i, converged, seq, draws>>
           ELSE \E s \in RUJ_Candidates(IntOf(num_trials.u), iti_min, iti_max, discrete) :
                  /\ seq' = s
                  /\ draws' = Drawn(draws)
                  /\ \E o \in RUJ_Test(s, desired_mean, tolerance) : LoopControl(o)
    /\ UNCHANGED <<request, desired_mean, iti_min, iti_max, reported>>
    /\ UNCHANGED presentationVars

RUJ_Return ==
    /\ pc = "exit"
    /\ fn = "random_uniform_jitter"
    /\ reported' = Reported(i, nsim, converged)
    /\ pc' = "returned"
    /\ UNCHANGED <<request, desired_mean, iti_min, iti_max, i, converged, seq,
                   draws, err>>
    /\ UNCHANGED presentationVars

\* ------------------------------------------------------------ no call
\* No generator is being called.
GenIdle ==
    /\ fn = "none"
    /\ args = [m |-> None, lo |-> None, hi |-> None]
    /\ num_trials = None
    /\ desired_mean = None
    /\ iti_min = None
    /\ iti_max = None
    /\ discrete = FALSE
    /\ tolerance = 0
    /\ nsim = 0
    /\ pc = "idle"
    /\ i = 0
    /\ converged = FALSE
    /\ seq = <<>>
    /\ draws = 0
    /\ err = "none"
    /\ reported = -1

\* clean_up is not being called.
CU_Idle ==
    /\ cu_args = [serial |-> FALSE, labjack |-> FALSE, data_files |-> [k |-> "none"]]
    /\ cu_faulty = {}
    /\ cu_pc = "idle"
    /\ cu_todo = <<>>
    /\ cu_log = <<>>

\* wait_for_click is not being called.
WC_Idle ==
    /\ wc_pc = "idle"
    /\ wc_buttons = {}
    /\ wc_notClicked = TRUE
    /\ wc_obs = <<>>

\* No RatingScale has been created.
RS_Idle ==
    /\ rs_cfg = "none"
    /\ rs = "none"
    /\ rs_clock = 0
    /\ rs_units = "none"
    /\ rs_last = "none"

\* ------------------------------------------------------------ requests
\* tolerance: the default, .05.
Tolerances == {Unit \div 20}

\* num_trials: 1..MaxTrials as int, and 2.0.
TrialArgs == { I(n) : n \in 1..MaxTrials } \cup {F(2 * Unit)}

\* random_jitter: desired_mean 6 or 6.5; iti_min 1, 2, 1.5 or 6; iti_max absent,
\* 10 or 10.0.
RJ_Args ==
    [m : {I(6), F(6 * Unit + Unit \div 2)},
     lo : {I(1), I(2), F(Unit + Unit \div 2), I(6)},
     hi : {None, I(10), F(10 * Unit)}]

\* random_uniform_jitter: desired_mean absent, 6 or 6.0; iti_min absent, 0, 2 or
\* 2.5; iti_max absent, 0, 10 or 10.5.
RUJ_Args ==
    [m : {None, I(6), F(6 * Unit)},
     lo : {None, I(0), I(2), F(2 * Unit + Unit \div 2)},
     hi : {None, I(0), I(10), F(10 * Unit + Unit \div 2)}]

Init ==
    /\ fn \in {"random_jitter", "random_uniform_jitter"}
    /\ args \in IF fn = "random_jitter" THEN RJ_Args ELSE RUJ_Args
    /\ num_trials \in TrialArgs
    /\ desired_mean = args.m
    /\ iti_min = args.lo
    /\ iti_max = args.hi
    /\ discrete \in BOOLEAN
    /\ tolerance \in Tolerances
    /\ nsim \in 1..MaxNsim
    /\ pc = "call"
    /\ i = 0
    /\ converged = FALSE
    /\ seq = <<>>
    /\ draws = 0
    /\ err = "none"
    /\ reported = -1
    /\ CU_Idle
    /\ WC_Idle
    /\ RS_Idle

Next ==
    \/ RJ_Validate
    \/ RJ_Iterate
    \/ RJ_Return
    \/ RUJ_Validate
    \/ RUJ_Iterate
    \/ RUJ_Return

Spec == Init /\ [][Next]_vars

\* The interpreter runs the call to its end: a step that can be taken is taken.
FairSpec == Spec /\ WF_vars(Next)

\* ------------------------------------------------------------ clean_up
\* The things clean_up closes, and the quit that ends it.
Resource(r, n) == [r |-> r, n |-> n]

Window == Resource("window", 0)

File(n) == Resource("file", n)

Serial == Resource("serial", 0)

Labjack == Resource("labjack", 0)

Quit == Resource("quit", 0)

\* Lists of distinct files, of every length up to MaxFiles.
FileLists ==
    {l \in UNION {[1..n -> 1..MaxFiles] : n \in 0..MaxFiles} :
        \A a, b \in DOMAIN l : a # b => l[a] # l[b]}

\* data_files as passed: None (the default), one file object not in a list,
\* or a list of files.
CU_DataFiles ==
    {[k |-> "none", fs |-> <<>>]}
        \cup {[k |-> "file", fs |-> <<n>>] : n \in 1..MaxFiles}
        \cup {[k |-> "list", fs |-> l] : l \in FileLists}

\* "if data_files:": None and the empty list are falsy, a file object and a
\* non-empty list are truthy.
CU_Truthy(d) == d.k = "file" \/ (d.k = "list" /\ d.fs # <<>>)

\* A mutation of CU_FileList: a single file object is not wrapped.
CU_FileList_NoWrap(d) == IF d.k = "list" THEN d.fs ELSE <<>>

\* "if not isinstance(data_files, list): data_files = [data_files]".
CU_FileList(d) == IF d.k = "list" THEN d.fs ELSE <<d.fs[1]>>

\* What the caller handed to clean_up.
CU_Supplied(a) ==
    {Window}
        \cup {File(a.data_files.fs[j]) : j \in DOMAIN a.data_files.fs}
        \cup (IF a.serial THEN {Serial} ELSE {})
        \cup (IF a.labjack THEN {Labjack} ELSE {})

\* A mutation of CU_After: the labjack block before the serial block.
CU_After_LabjackFirst(stage) ==
    CASE stage = "window" -> "data_files"
      [] stage = "data_files" -> "labjack"
      [] stage = "labjack" -> "serial"
      [] stage = "serial" -> "quit"
      [] stage = "quit" -> "exited"

\* The statement order of the body: the stage that follows each stage.
CU_After(stage) ==
    CASE stage = "window" -> "data_files"
      [] stage = "data_files" -> "serial"
      [] stage = "serial" -> "labjack"
      [] stage = "labjack" -> "quit"
      [] stage = "quit" -> "exited"

\* r.close(): it returns, or it raises and, nothing in clean_up catching
\* the exception, the call ends there.
CU_Close(r, next) ==
    IF r \in cu_faulty
        THEN /\ cu_pc' = "raised"
             /\ UNCHANGED cu_log
        ELSE /\ cu_pc' = next
             /\ cu_log' = Append(cu_log, r)

\* window.close()
CU_CloseWindow ==
    /\ cu_pc = "window"
    /\ CU_Close(Window, CU_After("window"))
    /\ UNCHANGED <<cu_args, cu_faulty, cu_todo>>
    /\ UNCHANGED <<genVars, wcVars, rsVars>>

\* "if data_files:" and the wrapping of a single file.
CU_EnterDataFiles ==
    /\ cu_pc = "data_files"
    /\ IF CU_Truthy(cu_args.data_files)
           THEN /\ cu_todo' = CU_FileList(cu_args.data_files)
                /\ cu_pc' = "for"
           ELSE /\ cu_pc' = CU_After("data_files")
                /\ UNCHANGED cu_todo
    /\ UNCHANGED <<cu_args, cu_faulty, cu_log>>
    /\ UNCHANGED <<genVars, wcVars, rsVars>>

\* One iteration of "for f in data_files: f.close()", or the loop's end.
CU_CloseFile ==
    /\ cu_pc = "for"
    /\ IF cu_todo = <<>>
           THEN /\ cu_pc' = CU_After("data_files")
                /\ UNCHANGED <<cu_todo, cu_log>>
           ELSE /\ CU_Close(File(Head(cu_todo)), "for")
                /\ cu_todo' = Tail(cu_todo)
    /\ UNCHANGED <<cu_args, cu_faulty>>
    /\ UNCHANGED <<genVars, wcVars, rsVars>>

\* "if serial: serial.close()"
CU_CloseSerial ==
    /\ cu_pc = "serial"
    /\ IF cu_args.serial
           THEN CU_Close(Serial, CU_After("serial"))
           ELSE /\ cu_pc' = CU_After("serial")
                /\ UNCHANGED cu_log
    /\ UNCHANGED <<cu_args, cu_faulty, cu_todo>>
    /\ UNCHANGED <<genVars, wcVars, rsVars>>

\* "if labjack: labjack.close()"
CU_CloseLabjack ==
    /\ cu_pc = "labjack"
    /\ IF cu_args.labjack
           THEN CU_Close(Labjack, CU_After("labjack"))
           ELSE /\ cu_pc' = CU_After("labjack")
                /\ UNCHANGED cu_log
    /\ UNCHANGED <<cu_args, cu_faulty, cu_todo>>
    /\ UNCHANGED <<genVars, wcVars, rsVars>>

\* core.quit()
CU_Quit ==
    /\ cu_pc = "quit"
    /\ cu_log' = Append(cu_log, Quit)
    /\ cu_pc' = CU_After("quit")
    /\ UNCHANGED <<cu_args, cu_faulty, cu_todo>>
    /\ UNCHANGED <<genVars, wcVars, rsVars>>

\* A call of clean_up: a window, the optional handles, and any of the
\* supplied resources failing to close.
CU_Init ==
    /\ GenIdle
    /\ WC_Idle
    /\ RS_Idle
    /\ cu_args \in [serial : BOOLEAN, labjack : BOOLEAN, data_files : CU_DataFiles]
    /\ cu_faulty \in SUBSET CU_Supplied(cu_args)
    /\ cu_pc = "window"
    /\ cu_todo = <<>>
    /\ cu_log = <<>>

CU_Next ==
    \/ CU_CloseWindow
    \/ CU_EnterDataFiles
    \/ CU_CloseFile
    \/ CU_CloseSerial
    \/ CU_CloseLabjack
    \/ CU_Quit

SpecCleanUp == CU_Init /\ [][CU_Next]_vars

\* ------------------------------------------------------------ wait_for_click
\* The buttons getPressed() reports on.
Buttons == {"left", "middle", "right"}

\* any(buttons)
AnyPressed(b) == b # {}

\* A mutation of WC_AfterOuter: a press ends the wait, no release awaited.
WC_AfterOuter_NoRelease(pressed) == IF pressed THEN "returned" ELSE "outer"

\* "if any(buttons):" a press enters the inner loop that awaits the release,
\* anything else polls again.
WC_AfterOuter(pressed) == IF pressed THEN "inner" ELSE "outer"

\* The participant presses or releases buttons while the routine polls.
WC_Mouse ==
    /\ wc_pc \in {"outer", "inner"}
    /\ wc_buttons' \in (SUBSET Buttons) \ {wc_buttons}
    /\ UNCHANGED <<wc_pc, wc_notClicked, wc_obs>>
    /\ UNCHANGED <<genVars, cuVars, rsVars>>

\* "while notClicked: buttons = self.getPressed(); if any(buttons):"
WC_PollOuter ==
    /\ wc_pc = "outer"
    /\ wc_notClicked
    /\ Len(wc_obs) < MaxPolls
    /\ wc_obs' = Append(wc_obs, wc_buttons)
    /\ wc_pc' = WC_AfterOuter(AnyPressed(wc_buttons))
    /\ UNCHANGED <<wc_buttons, wc_notClicked>>
    /\ UNCHANGED <<genVars, cuVars, rsVars>>

\* "while any(self.getPressed()): pass", then "notClicked=False" and, the
\* outer condition now false, the return.
WC_PollInner ==
    /\ wc_pc = "inner"
    /\ Len(wc_obs) < MaxPolls
    /\ wc_obs' = Append(wc_obs, wc_buttons)
    /\ IF AnyPressed(wc_buttons)
           THEN UNCHANGED <<wc_pc, wc_notClicked>>
           ELSE /\ wc_notClicked' = FALSE
                /\ wc_pc' = "returned"
    /\ UNCHANGED wc_buttons
    /\ UNCHANGED <<genVars, cuVars, rsVars>>

\* A call of wait_for_click, with the mouse in any state.
WC_Init ==
    /\ GenIdle
    /\ CU_Idle
    /\ RS_Idle
    /\ wc_pc = "outer"
    /\ wc_buttons \in SUBSET Buttons
    /\ wc_notClicked = TRUE
    /\ wc_obs = <<>>

WC_Next ==
    \/ WC_Mouse
    \/ WC_PollOuter
    \/ WC_PollInner

SpecWaitForClick == WC_Init /\ [][WC_Next]_vars

\* ------------------------------------------------------------ RatingScale
\* Values.  A marker position, a rating or a response time is a record
\* [k, v]: "num" a number v, "choice" the label choices[v], "none" Python's
\* None, "false" Python's False (an unplaced marker), "error" the TypeError
\* that None * autoRescaleFactor raises.  Marker positions are in tick units
\* 0 .. MaxTick; with precision 1 they are whole.
Value(k, v) == [k |-> k, v |-> v]

NoValue == Value("none", 0)

Unplaced == Value("false", 0)

Num(v) == Value("num", v)

Choice(v) == Value("choice", v)

ErrorValue == Value("error", 0)

\* Op applied to the value of v (v is evaluated once).
Bind(v, Op(_)) == CHOOSE r \in {Op(x) : x \in {v}} : TRUE

\* Time.  Clock readings are whole steps from 1: a reading is taken after
\* the clock was reset, so none is 0.  minTime, in the same steps.
RS_MinTime == 2

\* The scales constructed.  choices: none given ("none", self.choices is
\* False) or the list of numbers 0 .. MaxTick ("num").  maxTime: 0.0 (the
\* default, no time-out) or one step above minTime.  bounds, in tick units:
\* the whole line or one tick in from each end.  markerStart: None (the
\* default) or two ticks above low.  py: the Python major version (setup.py
\* declares 2 and 3); the two differ only where choices are compared, so
\* Python 2 is taken with choices.  A marker start is taken with the default
\* numeric scale.  The defaults otherwise: showAccept, no mouseOnly, no
\* noMouse, precision 1, marker 'triangle'.
RS_Configs ==
    {c \in [choices : {"none", "num"},
            singleClick : BOOLEAN,
            maxTime : {0, RS_MinTime + 1},
            bounds : {<<0, MaxTick>>, <<1, MaxTick - 1>>},
            markerStart : BOOLEAN,
            py : {2, 3}] :
        /\ c.py = 2 => c.choices = "num"
        /\ c.markerStart => (c.choices = "none" /\ c.singleClick = FALSE /\ c.maxTime = 0)}

\* self.low: 1 by default, 0 with choices.
RS_Low(c) == IF c.choices = "none" THEN 1 ELSE 0

\* self.markerStart, when one is given: two ticks above low.
RS_MarkerStart(c) == RS_Low(c) + 2

\* self.allowTimeOut
RS_AllowTimeOut(c) == RS_MinTime < c.maxTime

\* getRating()
getRating(s, c) ==
    IF s.noResponse /\ s.status = "FINISHED" THEN NoValue
    ELSE IF s.markerPlacedAt.k = "none" THEN ErrorValue
    ELSE LET response == s.markerPlacedAt.v + RS_Low(c)
         IN  IF c.choices # "none" /\ response \in 0..MaxTick
                 THEN Choice(response)
                 ELSE Num(response)

\* getRT(), the clock reading t.
getRT(s, c, t) ==
    IF s.status # "FINISHED" THEN Num(t)
    ELSE IF s.noResponse
        THEN (IF s.timedOut THEN Num(c.maxTime) ELSE NoValue)
    ELSE Num(s.decisionTime)

\* reset()
reset(s, c) ==
    [s EXCEPT !.noResponse = TRUE,
              !.markerPlaced = c.markerStart,
              !.markerPlacedBySubject = FALSE,
              !.markerPlacedAt = IF c.markerStart
                                     THEN Num(RS_MarkerStart(c) - RS_Low(c))
                                     ELSE Unplaced,
              !.firstDraw = TRUE,
              !.decisionTime = 0,
              !.status = "NOT_STARTED",
              !.history = <<>>]

\* The attributes before __init__ has set any.
RS_Blank ==
    [noResponse |-> TRUE, status |-> "NOT_STARTED", history |-> <<>>,
     markerPlaced |-> FALSE, markerPlacedAt |-> Unplaced,
     markerPlacedBySubject |-> FALSE, decisionTime |-> 0,
     timedOut |-> FALSE, beyondMinTime |-> FALSE, firstDraw |-> TRUE,
     err |-> "none"]

\* __init__: "self.reset()", then "self.timedOut = False" and
\* "self.beyondMinTime = False".
RS_Created(c) ==
    [reset(RS_Blank, c) EXCEPT !.timedOut = FALSE, !.beyondMinTime = FALSE]

\* self.history.append((rating, RT)).  Of the list only the rating of its
\* last entry is kept (draw() reads no other): <<>> is None, <<r>> a list
\* that ends with the rating r.
RS_Append(h, r) == <<r>>

\* acceptResponse(): noResponse is cleared, then getRating() is evaluated
\* for the history entry.
acceptResponse(s, c) ==
    Bind([s EXCEPT !.noResponse = FALSE], LAMBDA s1 :
        IF getRating(s1, c).k = "error"
            THEN [s1 EXCEPT !.err = "TypeError"]
            ELSE [s1 EXCEPT !.history = RS_Append(@, getRating(s1, c))])

\* The keys event.getKeys(self.allKeys) can return: the skip key, the accept
\* key, the left and right keys, and the digit keys low .. high.
Key(k, v) == [k |-> k, v |-> v]

RS_Keys(c) ==
    {Key(k, 0) : k \in {"skip", "accept", "left", "right"}}
        \cup {Key("resp", d) : d \in RS_Low(c)..(RS_Low(c) + MaxTick)}

\* What one call of event.getKeys() returns: no key, one key, or one of a
\* few pairs of keys.
RS_KeyLists(c) ==
    {<<>>}
        \cup {<<k>> : k \in RS_Keys(c)}
        \cup {<<Key(a, 0), Key(b, 0)>> : a \in {"skip", "accept"}, b \in {"accept", "left"}}

\* The mouse as one draw() call sees it: near the line at tick pos, over the
\* accept box, or elsewhere; left button down or not.
RS_Mice ==
    {[where |-> "line", pos |-> x, pressed |-> b] : x \in 0..MaxTick, b \in BOOLEAN}
        \cup {[where |-> "box", pos |-> 0, pressed |-> b] : b \in BOOLEAN}
        \cup {[where |-> "away", pos |-> 0, pressed |-> FALSE]}

\* The mouse nowhere near the scale.
RS_MouseAway == [where |-> "away", pos |-> 0, pressed |-> FALSE]

\* What one draw() call receives: keys with the mouse away, the mouse with
\* no key, or a skip or accept key together with a click.
RS_Inputs(c) ==
    {[keys |-> k, mouse |-> RS_MouseAway] : k \in RS_KeyLists(c)}
        \cup {[keys |-> <<>>, mouse |-> m] : m \in RS_Mice}
        \cup {[keys |-> <<Key(a, 0)>>, mouse |-> m] :
                 a \in {"skip", "accept"},
                 m \in {x \in RS_Mice : x.pressed /\ x.pos = 0}}

\* "handle bounds" of the mouse paths: the position is moved onto the
\* nearer bound.
RS_Clamp(pos, b) ==
    IF pos < b[1] THEN b[1] ELSE IF pos > b[2] THEN b[2] ELSE pos

\* _getMarkerFromTick(tick)
getMarkerFromTick(tick, c) ==
    LET high == RS_Low(c) + MaxTick
        value == IF tick > high THEN high
                 ELSE IF tick < RS_Low(c) THEN RS_Low(c) ELSE tick
    IN  value - RS_Low(c)

\* "bounds" of the key path, the marker at tick m: the exception its
\* statements raise, or "none".  self.choices[m] fails when choices is False
\* (TypeError).  A choice below bounds[0] reaches "list > float" (a TypeError
\* on Python 3) or, on Python 2, "list - float" (TypeError).  A choice above
\* bounds[1] reaches "list < float": a TypeError on Python 3, False on
\* Python 2, where numpy.where(False)[0].max() is a ValueError.
RS_KeyBounds(m, c) ==
    IF c.choices = "none" THEN "TypeError"
    ELSE IF m < c.bounds[1] THEN "TypeError"
    ELSE IF m > c.bounds[2] THEN (IF c.py = 3 THEN "TypeError" ELSE "ValueError")
    ELSE "none"

\* draw(), from its first line to the time-out test; t is the clock reading.
RS_DrawStart(s, c, t) ==
    LET first == IF ~c.markerStart THEN NoValue
                 ELSE IF c.choices = "none" THEN Num(RS_MarkerStart(c))
                 ELSE Choice(RS_MarkerStart(c))
        s1 == IF s.firstDraw
                  THEN [s EXCEPT !.firstDraw = FALSE,
                                 !.status = "STARTED",
                                 !.history = <<first>>,
                                 !.beyondMinTime = FALSE,
                                 !.timedOut = FALSE]
                  ELSE s
    IN  Bind(IF ~s1.beyondMinTime
                 THEN [s1 EXCEPT !.beyondMinTime = t > RS_MinTime]
                 ELSE s1,
             LAMBDA s2 :
                 IF RS_AllowTimeOut(c) /\ ~s2.timedOut /\ c.maxTime < t
                     THEN Bind([s2 EXCEPT !.timedOut = TRUE],
                               LAMBDA s3 : acceptResponse(s3, c))
                     ELSE s2)

\* A mutation of RS_Unresponsive: the marker stays responsive.
RS_Unresponsive_Never(s) == FALSE

\* "if self.noResponse == False: ... return  # makes the marker unresponsive"
\* (and the 'disappear' return before it).
RS_Unresponsive(s) == s.noResponse = FALSE

\* "draw a dynamic marker": with singleClick the marker follows the mouse
\* along the line.
RS_Follow(s, c, mouse) ==
    IF (s.markerPlaced \/ c.singleClick) /\ c.singleClick /\ mouse.where = "line"
        THEN [s EXCEPT !.markerPlacedAt = Num(RS_Clamp(mouse.pos, c.bounds)),
                       !.markerPlaced = TRUE]
        ELSE s

\* The body of "if self.markerPlaced and self.beyondMinTime:" for one key.
RS_KeyMove(s, c, key) ==
    LET \* if key in self.leftKeys: ... elif rightKeys ... elif acceptKeys
        Moved ==
            IF key.k \in {"left", "right"}
                THEN IF s.markerPlacedAt.k = "none"
                         THEN [s EXCEPT !.err = "TypeError"]
                         ELSE [s EXCEPT !.markerPlacedAt =
                                            Num(@.v + (IF key.k = "left" THEN -1 ELSE 1)),
                                        !.markerPlacedBySubject = TRUE]
            ELSE IF key.k = "accept" THEN acceptResponse(s, c)
            ELSE s
        \* "off the end?": max(0, None) is 0 on Python 2 and a TypeError on
        \* Python 3
        OnLine(s1) ==
            IF s1.err # "none" THEN s1
            ELSE IF s1.markerPlacedAt.k = "none"
                THEN IF c.py = 3 THEN [s1 EXCEPT !.err = "TypeError"]
                     ELSE [s1 EXCEPT !.markerPlacedAt = Num(0)]
            ELSE LET v == s1.markerPlacedAt.v
                 IN  [s1 EXCEPT !.markerPlacedAt =
                          Num(IF v < 0 THEN 0 ELSE IF v > MaxTick THEN MaxTick ELSE v)]
        \* "bounds"
        Bounded(s2) ==
            IF s2.err # "none" THEN s2
            ELSE [s2 EXCEPT !.err = RS_KeyBounds(s2.markerPlacedAt.v, c)]
    IN  Bind(Moved, LAMBDA s1 : Bind(OnLine(s1), LAMBDA s2 : Bounded(s2)))

\* One pass of "for key in event.getKeys(self.allKeys):".
RS_KeyStep(s, c, key) ==
    LET Placed ==
            IF key.k = "skip"
                THEN [s EXCEPT !.markerPlacedAt = NoValue,
                               !.noResponse = FALSE,
                               !.history = RS_Append(@, NoValue)]
            ELSE IF key.k = "resp"
                THEN [s EXCEPT !.markerPlaced = TRUE,
                               !.markerPlacedBySubject = TRUE,
                               !.markerPlacedAt = Num(getMarkerFromTick(key.v, c))]
            ELSE s
        Moved(s1) ==
            IF s1.markerPlaced /\ s1.beyondMinTime
                THEN RS_KeyMove(s1, c, key)
                ELSE s1
        SingleClick(s2) ==
            IF s2.err = "none" /\ s2.markerPlacedBySubject /\ c.singleClick
                   /\ s2.beyondMinTime
                THEN acceptResponse(s2, c)
                ELSE s2
    IN  Bind(Placed, LAMBDA s1 : Bind(Moved(s1), LAMBDA s2 : SingleClick(s2)))

\* The whole for loop; an exception ends it.
RECURSIVE RS_KeyLoop(_, _, _)
RS_KeyLoop(s, c, keys) ==
    IF keys = <<>> \/ s.err # "none" THEN s
    ELSE Bind(RS_KeyStep(s, c, Head(keys)),
              LAMBDA s1 : RS_KeyLoop(s1, c, Tail(keys)))

\* "handle mouse left-click"
RS_MouseClick(s, c, mouse) ==
    IF ~mouse.pressed THEN s
    ELSE IF mouse.where = "line"
        THEN Bind([s EXCEPT !.markerPlaced = TRUE,
                            !.markerPlacedBySubject = TRUE,
                            !.markerPlacedAt = Num(RS_Clamp(mouse.pos, c.bounds))],
                  LAMBDA s1 : IF c.singleClick /\ s1.beyondMinTime
                                  THEN acceptResponse(s1, c)
                                  ELSE s1)
    ELSE IF s.markerPlaced /\ s.beyondMinTime /\ mouse.where = "box"
        THEN acceptResponse(s, c)
    ELSE s

\* The end of draw(): the decision time of a response just committed, or
\* one more history entry when the indicated rating changed.
RS_DrawEnd(s, c, t) ==
    IF ~s.noResponse /\ s.decisionTime = 0
        THEN [s EXCEPT !.decisionTime = t, !.status = "FINISHED"]
        ELSE LET tmpRating == getRating(s, c)
             IN  IF tmpRating.k = "error" THEN [s EXCEPT !.err = "TypeError"]
                 ELSE IF s.history[1] # tmpRating /\ s.markerPlacedBySubject
                     THEN [s EXCEPT !.history = RS_Append(@, tmpRating)]
                 ELSE s

\* draw(): the attributes after the call, s.err the exception it raised.
draw(s, c, t, keys, mouse) ==
    LET Input(s0) ==
            Bind(RS_Follow(s0, c, mouse), LAMBDA s1 :
            Bind(RS_KeyLoop(s1, c, keys), LAMBDA s2 :
            Bind(IF s2.err # "none" THEN s2 ELSE RS_MouseClick(s2, c, mouse),
                 LAMBDA s3 :
                     IF s3.err # "none" THEN s3 ELSE RS_DrawEnd(s3, c, t))))
    IN  Bind(RS_DrawStart(s, c, t), LAMBDA s0 :
            IF s0.err # "none" \/ RS_Unresponsive(s0) THEN s0 ELSE Input(s0))

\* A mutation of draw_only: it handles a skip key as draw() does.
draw_only_Collects(s, c, t) == draw(s, c, t, <<Key("skip", 0)>>, RS_MouseAway)

\* draw_only(): nothing but drawing; "self.markerPlacedAt/self.tickMarks"
\* raises TypeError when the marker position is None.
draw_only(s, c, t) ==
    IF s.markerPlacedAt.k = "none" THEN [s EXCEPT !.err = "TypeError"] ELSE s

\* presentation.draw_scale_only(), the same statements.
draw_scale_only(s, c, t) ==
    IF s.markerPlacedAt.k = "none" THEN [s EXCEPT !.err = "TypeError"] ELSE s

\* self.savedWinUnits: the window's own units.
RS_SavedUnits == "pix"

\* Every method sets the window to 'norm' units first and restores the
\* saved units as its last statement, which an exception skips.
RS_UnitsAfter(s) == IF s.err # "none" THEN "norm" ELSE RS_SavedUnits

\* The reading of the clock in a draw() call: the first draw() resets it.
RS_Reading(s, clock) == IF s.firstDraw THEN 1 ELSE clock

\* rs.draw() with any keys and any mouse.
RS_Draw ==
    /\ rs_last # "none"
    /\ rs.err = "none"
    /\ \E in \in RS_Inputs(rs_cfg) :
         \E s \in {draw(rs, rs_cfg, RS_Reading(rs, rs_clock), in.keys, in.mouse)} :
             /\ rs' = s
             /\ rs_clock' = RS_Reading(rs, rs_clock)
             /\ rs_units' = RS_UnitsAfter(s)
    /\ rs_last' = "draw"
    /\ UNCHANGED rs_cfg
    /\ UNCHANGED <<genVars, cuVars, wcVars>>

\* rs.reset()
RS_Reset ==
    /\ rs_last # "none"
    /\ rs.err = "none"
    /\ rs' = reset(rs, rs_cfg)
    /\ rs_last' = "reset"
    /\ UNCHANGED <<rs_cfg, rs_clock, rs_units>>
    /\ UNCHANGED <<genVars, cuVars, wcVars>>

\* rs.draw_only()
RS_DrawOnly ==
    /\ rs_last # "none"
    /\ rs.err = "none"
    /\ LET s == draw_only(rs, rs_cfg, RS_Reading(rs, rs_clock))
       IN  /\ rs' = s
           /\ rs_units' = RS_UnitsAfter(s)
    /\ rs_last' = "draw_only"
    /\ UNCHANGED <<rs_cfg, rs_clock>>
    /\ UNCHANGED <<genVars, cuVars, wcVars>>

\* draw_scale_only(rs)
RS_DrawScaleOnly ==
    /\ rs_last # "none"
    /\ rs.err = "none"
    /\ LET s == draw_scale_only(rs, rs_cfg, RS_Reading(rs, rs_clock))
       IN  /\ rs' = s
           /\ rs_units' = RS_UnitsAfter(s)
    /\ rs_last' = "draw_scale_only"
    /\ UNCHANGED <<rs_cfg, rs_clock>>
    /\ UNCHANGED <<genVars, cuVars, wcVars>>

\* Time passes between calls.
RS_Tick ==
    /\ rs_last # "none"
    /\ rs.err = "none"
    /\ rs_clock < MaxClock
    /\ rs_clock' = rs_clock + 1
    /\ rs_last' = "tick"
    /\ UNCHANGED <<rs_cfg, rs, rs_units>>
    /\ UNCHANGED <<genVars, cuVars, wcVars>>

\* A scale just constructed.
RS_Init ==
    /\ GenIdle
    /\ CU_Idle
    /\ WC_Idle
    /\ rs_cfg \in RS_Configs
    /\ rs = RS_Created(rs_cfg)
    /\ rs_clock = 1
    /\ rs_units = RS_SavedUnits
    /\ rs_last = "init"

RS_Next ==
    \/ RS_Draw
    \/ RS_Reset
    \/ RS_DrawOnly
    \/ RS_DrawScaleOnly
    \/ RS_Tick

SpecRatingScale == RS_Init /\ [][RS_Next]_vars

\* ------------------------------------------------------------ claims
Terminal == pc \in {"returned", "raised"}

\* A candidate has been drawn and tested.
Tested == seq # <<>>

\* |mean(s) - b| <= tol as a plain absolute difference, multiplied through by
\* the length of s.
PlainWithin(s, b, tol) ==
    LET n == Len(s)
        d == SumU(s) - n * b.u
    IN  IF SumE(s) = 0 THEN Abs(d) <= n * tol
        ELSE IF d >= 0 THEN d < n * tol
        ELSE 0 - d <= n * tol

\* How many of desired_mean, iti_min, iti_max the caller passed (not None).
Supplied ==
    (IF IsNone(args.m) THEN 0 ELSE 1) + (IF IsNone(args.lo) THEN 0 ELSE 1)
    + (IF IsNone(args.hi) THEN 0 ELSE 1)

\* C1: in either generator, a call that reports convergence holds a sequence
\* whose mean differs from desired_mean by at most tolerance, as a plain
\* absolute difference.
C1_ConvergedMeanWithinTolerance ==
    converged => PlainWithin(seq, desired_mean, tolerance)

\* C2: every element of every candidate random_jitter draws, accepted or
\* rejected, discrete or continuous, is >= iti_min.
C2_FloorInvariant ==
    (fn = "random_jitter" /\ Tested)
        => \A j \in 1..Len(seq) : seq[j].u >= iti_min.u

\* C3: the number of candidates drawn in one call never exceeds nsim.
C3_AttemptBound == draws <= nsim

\* C4: every element of every sequence random_uniform_jitter draws lies in
\* [iti_min, iti_max], the bounds being the supplied or derived ones.
C4_UniformBounds ==
    (fn = "random_uniform_jitter" /\ Tested)
        => \A j \in 1..Len(seq) :
              /\ ElemLeq(Elem(iti_min.u, 0), seq[j])
              /\ ElemLeq(seq[j], Elem(iti_max.u, 0))

\* The acceptance test as the claims state it: the mean within tolerance and,
\* in random_jitter, no element above iti_max (no iti_max: no ceiling).
C5_Acceptable ==
    /\ AllClose(seq, desired_mean, tolerance)
    /\ fn = "random_jitter"
          => MaxLeq(seq, IF IsNone(iti_max) THEN Inf ELSE iti_max)

\* C5: a call in which no candidate is accepted raises nothing: once the
\* search has drawn a candidate, the call ends by returning, and a call that
\* returns without convergence returns the candidate that failed the test.
C5_NonConvergenceReturns ==
    /\ (draws > 0 /\ ~converged) => (pc # "raised" /\ err = "none")
    /\ (pc = "returned" /\ ~converged) => (Tested /\ ~C5_Acceptable)

\* C6: every call ends, by returning or by raising: the retry loop cannot run
\* forever.
C6_Terminates == <>Terminal

\* C6 witness: a call whose every candidate was rejected has returned.
C6_Witness ==
    pc = "returned" /\ ~converged /\ draws > 1 /\ i = nsim

\* C7: random_jitter with discrete=False and no iti_max treats the maximum as
\* unbounded: a candidate whose mean passes the tolerance test is accepted
\* and nothing is raised.
C7_UnboundedMaxAccepts ==
    (/\ fn = "random_jitter"
     /\ ~discrete
     /\ IsNone(args.hi)
     /\ Tested
     /\ AllClose(seq, desired_mean, tolerance))
        => (converged /\ err = "none")

\* C8: random_uniform_jitter called with exactly two of desired_mean, iti_min,
\* iti_max derives the third from mean = (min + max) / 2, whatever the two
\* values are, and goes on with it.
C8_ThirdParameterDerived ==
    (/\ fn = "random_uniform_jitter"
     /\ IsInt(num_trials)
     /\ Supplied = 2
     /\ pc # "call")
        => /\ ~IsNone(desired_mean) /\ ~IsNone(iti_min) /\ ~IsNone(iti_max)
           /\ 2 * desired_mean.u = iti_min.u + iti_max.u
           /\ IsNone(args.m) \/ desired_mean = args.m
           /\ IsNone(args.lo) \/ iti_min = args.lo
           /\ IsNone(args.hi) \/ iti_max = args.hi

\* C9: random_uniform_jitter called with none, one or all three of
\* desired_mean, iti_min, iti_max fails with the validation error before any
\* candidate is drawn.
C9_WrongCountRejected ==
    (fn = "random_uniform_jitter" /\ Supplied # 2 /\ pc # "call")
        => (pc = "raised" /\ err = "AssertionError" /\ draws = 0)

\* The requests the claim says random_jitter rejects.
C10_Rejected ==
    \/ ~Gt(args.m, args.lo)
    \/ discrete /\ ~IsInt(args.lo)
    \/ discrete /\ ~IsNone(args.hi) /\ ~IsInt(args.hi)

\* C10: random_jitter fails with the validation error, having drawn nothing,
\* exactly when desired_mean <= iti_min, or discrete holds and iti_min is not
\* an int, or discrete holds and a supplied iti_max is not an int; every other
\* request with an int num_trials goes on to the search.
C10_RandomJitterValidation ==
    (fn = "random_jitter" /\ pc # "call")
        => IF C10_Rejected
           THEN pc = "raised" /\ err = "AssertionError" /\ draws = 0 /\ i = 0
           ELSE IsInt(num_trials) => (pc = "loop" \/ draws > 0)

\* C10 witness: a request in continuous mode with desired_mean equal to iti_min
\* has been rejected by the assertion.
C10_Witness ==
    /\ fn = "random_jitter"
    /\ pc = "raised"
    /\ err = "AssertionError"
    /\ IsInt(num_trials)
    /\ args.m.u = args.lo.u
    /\ ~discrete

\* The call got past validation: it is in, or through, the search loop.
InSearch == pc \in {"loop", "exit", "returned"}

\* C11: random_uniform_jitter, called with two of the three parameters, is
\* rejected with the validation error unless desired_mean > iti_min holds
\* after the derivation, so that every call that reaches the search loop has
\* iti_min < iti_max.
C11_SearchRangeNotEmpty ==
    (fn = "random_uniform_jitter" /\ IsInt(num_trials) /\ Supplied = 2 /\ pc # "call")
        => /\ InSearch =>
                /\ ~IsNone(desired_mean) /\ ~IsNone(iti_min) /\ ~IsNone(iti_max)
                /\ desired_mean.u > iti_min.u
                /\ iti_min.u < iti_max.u
           /\ (~IsNone(desired_mean) /\ ~IsNone(iti_min) /\ desired_mean.u <= iti_min.u)
                => (pc = "raised" /\ err = "AssertionError")

\* The two parameters passed are true values (not zero) and in the order the
\* mean assertion wants: the integer check is the only one left to fail.
C12_Case ==
    /\ fn = "random_uniform_jitter"
    /\ discrete
    /\ IsInt(num_trials)
    /\ Supplied = 2
    /\ pc # "call"
    /\ \A a \in {args.m, args.lo, args.hi} : IsNone(a) \/ Truthy(a)
    /\ IF IsNone(args.hi) THEN args.m.u > args.lo.u
       ELSE IF IsNone(args.m) THEN args.hi.u > args.lo.u
       ELSE args.hi.u > args.m.u

\* The bound the caller passed: iti_min, or iti_max when iti_min is derived.
C12_SuppliedBound == IF ~IsNone(args.lo) THEN args.lo ELSE args.hi

\* C12: in discrete mode random_uniform_jitter rejects the call exactly when
\* the bound the caller passed (iti_min, or iti_max when iti_min is the derived
\* one) is not an int.
C12_IntegerCheckOnSuppliedBound ==
    C12_Case => ((pc = "raised" /\ err = "AssertionError") <=> ~IsInt(C12_SuppliedBound))

\* C13: a converged call of random_jitter with iti_max supplied holds a
\* sequence whose largest element is <= iti_max.
C13_ConvergedBelowCeiling ==
    (fn = "random_jitter" /\ converged /\ ~IsNone(args.hi)) => MaxLeq(seq, args.hi)

\* C13 witness: a converged call with iti_max = 10 and two trials has returned.
C13_Witness ==
    /\ fn = "random_jitter"
    /\ converged
    /\ pc = "returned"
    /\ ~IsNone(args.hi)
    /\ Len(seq) = 2

\* C14: every sequence random_jitter returns when iti_max is supplied, converged
\* or not, holds no element above iti_max.
C14_ReturnedBelowCeiling ==
    (fn = "random_jitter" /\ pc = "returned" /\ ~IsNone(args.hi)) => MaxLeq(seq, args.hi)

\* C15: with discrete true every element of a sequence either generator
\* returns is a whole number.
C15_DiscreteElementsWhole ==
    (discrete /\ pc = "returned")
        => \A j \in 1..Len(seq) : seq[j].u % Unit = 0 /\ seq[j].e = 0

\* C15 witness: random_jitter has returned a discrete sequence for the
\* desired_mean 6.5.
C15_Witness ==
    /\ fn = "random_jitter"
    /\ discrete
    /\ pc = "returned"
    /\ desired_mean.u % Unit # 0
    /\ Len(seq) = 2

\* C16: the iteration count a returning call prints equals the number of
\* candidates it drew.
C16_ReportedEqualsDrawn == pc = "returned" => reported = draws

\* The closes a complete clean_up call makes, in order, ending with the quit.
CU_Expected ==
    <<Window>>
        \o [j \in DOMAIN cu_args.data_files.fs |-> File(cu_args.data_files.fs[j])]
        \o (IF cu_args.serial THEN <<Serial>> ELSE <<>>)
        \o (IF cu_args.labjack THEN <<Labjack>> ELSE <<>>)
        \o <<Quit>>

IsPrefix(s, t) == Len(s) <= Len(t) /\ \A j \in 1..Len(s) : s[j] = t[j]

Occurrences(r, s) == Cardinality({j \in DOMAIN s : s[j] = r})

\* C17: clean_up closes the supplied resources in a fixed order: the window,
\* then the data files in list order, then the serial device, then the
\* labjack, and quits only after all of them.  At every moment what has
\* been closed is an initial part of that order (so nothing is closed after
\* the quit and nothing later is closed before something earlier), and a
\* call that has quit has closed exactly that sequence.
C17_FixedCloseOrder ==
    cu_pc # "idle" =>
        /\ IsPrefix(cu_log, CU_Expected)
        /\ cu_pc = "exited" => cu_log = CU_Expected

\* A call with both devices and two files listed out of numeric order has
\* run to the quit.
C17_Witness ==
    /\ cu_pc = "exited"
    /\ cu_args.serial
    /\ cu_args.labjack
    /\ cu_args.data_files.k = "list"
    /\ cu_args.data_files.fs = <<2, 1>>

\* C18: when no close() raises, whichever of serial, labjack and data_files
\* are not supplied are skipped without error: the call never raises, it can
\* always take its next step until it has quit, and by then the window and
\* every supplied resource (a single data file not in a list included) have
\* been closed exactly once and nothing else has.
C18_MissingResourcesSkipped ==
    (cu_pc # "idle" /\ cu_faulty = {}) =>
        /\ cu_pc # "raised"
        /\ cu_pc # "exited" => ENABLED CU_Next
        /\ cu_pc = "exited" =>
              /\ \A r \in CU_Supplied(cu_args) : Occurrences(r, cu_log) = 1
              /\ Occurrences(Quit, cu_log) = 1
              /\ Len(cu_log) = Cardinality(CU_Supplied(cu_args)) + 1

\* A call with no serial device and a single data file not in a list has
\* closed the file and the labjack and quit.
C18_Witness ==
    /\ cu_pc = "exited"
    /\ cu_faulty = {}
    /\ ~cu_args.serial
    /\ cu_args.labjack
    /\ cu_args.data_files.k = "file"
    /\ cu_log = <<Window, File(1), Labjack, Quit>>

\* C19: if the close() of one resource raises, clean_up still closes every
\* other supplied resource and still reaches the quit.
C19_BestEffortClose ==
    cu_pc \in {"exited", "raised"} =>
        /\ cu_pc = "exited"
        /\ \A r \in CU_Supplied(cu_args) \ cu_faulty : Occurrences(r, cu_log) = 1

\* Some poll saw a button down and a later poll saw none.
WC_PressThenRelease ==
    \E j, k \in DOMAIN wc_obs : j < k /\ AnyPressed(wc_obs[j]) /\ ~AnyPressed(wc_obs[k])

\* C20: wait_for_click has returned exactly when its polls have seen a press
\* followed by a release: it never returns before a press, the last poll
\* before it returns sees no button down, and it returns as soon as a poll
\* after a press sees none.
C20_ReturnsAfterPressAndRelease ==
    wc_pc # "idle" =>
        /\ wc_pc = "returned" <=> WC_PressThenRelease
        /\ wc_pc = "returned" =>
              /\ ~AnyPressed(wc_obs[Len(wc_obs)])
              /\ ~wc_notClicked

\* The routine polled with no button down, saw a button held over two polls,
\* then saw the release and returned.
C20_Witness ==
    /\ wc_pc = "returned"
    /\ Len(wc_obs) = 4
    /\ ~AnyPressed(wc_obs[1])
    /\ AnyPressed(wc_obs[2])
    /\ AnyPressed(wc_obs[3])

\* The sequence held passes the acceptance test of the function called.
C26_Accepted ==
    IF fn = "random_jitter"
        THEN "accept" \in RJ_Test(seq, desired_mean, tolerance, iti_max)
        ELSE "accept" \in RUJ_Test(seq, desired_mean, tolerance)

\* C26: in both generators the search stops at the first accepted candidate.
\* Whenever converged is set the sequence held is one that passes the
\* acceptance test, and from then on no step draws again or replaces it, so
\* the sequence returned is the accepted candidate, the last one drawn.
C26_StopsAtFirstAccepted ==
    /\ [](converged => C26_Accepted)
    /\ [][converged => (converged' /\ seq' = seq /\ draws' = draws)]_vars

\* random_uniform_jitter returned converged after one rejected candidate and
\* one accepted.
C26_Witness ==
    /\ fn = "random_uniform_jitter"
    /\ converged
    /\ pc = "returned"
    /\ draws = 2

\* C21: the marker position set by the subject never lies outside
\* [bounds[0], bounds[1]], and enforcing the bounds never raises.
C21_MarkerWithinBounds ==
    rs_last # "none" =>
        /\ rs.err = "none"
        /\ (rs.markerPlacedBySubject /\ rs.markerPlacedAt.k = "num")
              => /\ rs.markerPlacedAt.v >= rs_cfg.bounds[1]
                 /\ rs.markerPlacedAt.v <= rs_cfg.bounds[2]

\* C22: reset() restores the post-creation state: right after reset() the
\* response attributes (timedOut and beyondMinTime among them) equal those
\* the scale had when constructed.
C22_ResetRestoresCreation ==
    rs_last = "reset" => rs = RS_Created(rs_cfg)

\* The subject skipped the item: the skip key set the marker position to None.
RS_Skipped == rs.markerPlacedAt.k = "none"

\* The current trial timed out: maxTime passed with no response committed
\* (a response committed in time has set the status to FINISHED).
RS_TimedOut == rs.timedOut /\ ~rs.firstDraw /\ rs.status # "FINISHED"

\* C23: getRating() returns None if the subject skipped the item, if the
\* trial timed out, or if no rating is available yet (no marker placed);
\* otherwise it returns the rating the marker indicates, accepted or not.
C23_GetRating ==
    rs_last # "none" =>
        IF RS_Skipped \/ RS_TimedOut \/ rs.markerPlacedAt = Unplaced
            THEN getRating(rs, rs_cfg) = NoValue
            ELSE getRating(rs, rs_cfg).k \in {"num", "choice"}
                    /\ getRating(rs, rs_cfg).v = rs.markerPlacedAt.v + RS_Low(rs_cfg)

\* C24: getRT() returns maxTime if the trial timed out, None if the trial
\* finished with no response, the decision time if a rating was accepted (or
\* the item skipped), and the time elapsed so far while nothing is accepted.
C24_GetRT ==
    (rs_last # "none" /\ rs.err = "none") =>
        getRT(rs, rs_cfg, rs_clock) =
            IF RS_TimedOut THEN Num(rs_cfg.maxTime)
            ELSE IF rs.status = "FINISHED" /\ rs.noResponse THEN NoValue
            ELSE IF ~rs.noResponse THEN Num(rs.decisionTime)
            ELSE Num(rs_clock)

\* The response state of a scale.
RS_ResponseState(s) ==
    <<s.noResponse, s.status, s.history, s.markerPlaced, s.markerPlacedAt,
      s.decisionTime, s.timedOut>>

\* C25: draw_only() and draw_scale_only() only draw: a call leaves the
\* response state (noResponse, status, history, markerPlaced,
\* markerPlacedAt, decisionTime, timedOut) as it was, and when it returns
\* the window units are the saved units.
C25_DrawOnlyFrame ==
    [][rs_last' \in {"draw_only", "draw_scale_only"} =>
           /\ RS_ResponseState(rs') = RS_ResponseState(rs)
           /\ rs'.err = "none" => rs_units' = RS_SavedUnits]_vars

\* draw_only() was called on a scale whose marker the subject had placed
\* and whose response was committed, and returned.
C25_Witness ==
    /\ rs_last = "draw_only"
    /\ rs.err = "none"
    /\ ~rs.noResponse
    /\ rs.markerPlacedBySubject
    /\ rs.markerPlacedAt.k = "num"
    /\ rs_units = RS_SavedUnits

\* C27: minTime is enforced on every input path: no response is committed
\* (noResponse False) in a trial before minTime has elapsed.
C27_MinTimeEnforced ==
    (rs_last # "none" /\ rs.err = "none" /\ ~rs.noResponse) => rs.beyondMinTime

\* C28: once a response is committed the marker is unresponsive: a draw()
\* call made when noResponse is already False leaves markerPlacedAt and
\* the value of getRating() as they were, whatever the keys and the mouse.
C28_UnresponsiveAfterCommit ==
    [][(rs_last' = "draw" /\ ~rs.noResponse) =>
           /\ rs'.markerPlacedAt = rs.markerPlacedAt
           /\ getRating(rs', rs_cfg) = getRating(rs, rs_cfg)]_vars

\* A rating was committed and draw() was called again at a later time.
C28_Witness ==
    /\ rs_last = "draw"
    /\ ~rs.noResponse
    /\ rs.status = "FINISHED"
    /\ rs.markerPlacedAt.k = "num"
    /\ rs_clock > rs.decisionTime

====
